---- MODULE Spec2Model ----
(***************************************************************************)
(* A model of mne_bids/utils.py: the BIDS name builders                    *)
(* (make_bids_filename, make_bids_folders with _mkdir_p) and the           *)
(* BrainVision copy that rewrites the pointers between the sibling files   *)
(* (copyfile_brainvision).                                                 *)
(*                                                                         *)
(* Python strings are TLA+ strings; a Python value that may be None, a     *)
(* string or an integer is a tagged record.  The filesystem is a map from  *)
(* a path (relative to the working directory) to a directory or to a file  *)
(* with its lines.                                                         *)
(***************************************************************************)
EXTENDS Integers, Sequences, FiniteSets, TLC

VARIABLES
    call,   \* the call in progress or just made: its function and arguments
    ret,    \* what that call returned or raised; NotCalled before it is made
    fs,     \* the filesystem after the call
    fs0,    \* the filesystem as the call found it
    ncalls  \* how many calls have been made

vars == <<call, ret, fs, fs0, ncalls>>

---------------------------------------------------------------------------
(* Python values *)

None == [t |-> "none"]

PyStr(s) == [t |-> "str", s |-> s]

PyInt(n) == [t |-> "int", n |-> n]

\* isinstance(v, string_types)
IsStr(v) == v.t = "str"

IsNone(v) == v.t = "none"

\* What a call gives back: a value, or the exception it raised, named by the
\* place that raises it.
Returned(v) == [ok |-> TRUE, val |-> v]

Raised(e) == [ok |-> FALSE, err |-> e]

NotCalled == [ok |-> FALSE, err |-> "not called"]

---------------------------------------------------------------------------
(* Python's str operations *)

\* s[i]
CharAt(s, i) == SubSeq(s, i, i)

\* sub in s
Contains(s, sub) ==
    \E i \in 1..(Len(s) - Len(sub) + 1) : SubSeq(s, i, i + Len(sub) - 1) = sub

\* s.startswith(p)
StartsWith(s, p) == Len(p) <= Len(s) /\ SubSeq(s, 1, Len(p)) = p

\* s.endswith(p)
EndsWith(s, p) == Len(p) <= Len(s) /\ SubSeq(s, Len(s) - Len(p) + 1, Len(s)) = p

\* sep.join(parts)
RECURSIVE Join(_, _)
Join(parts, sep) ==
    IF parts = <<>> THEN ""
    ELSE IF Len(parts) = 1 THEN parts[1]
    ELSE parts[1] \o sep \o Join(Tail(parts), sep)

\* s.split(sep) for a one-character sep: "" gives [""], "a_" gives ["a", ""].
RECURSIVE SplitFrom(_, _, _, _)
SplitFrom(s, sep, i, cur) ==
    IF i > Len(s) THEN <<cur>>
    ELSE IF CharAt(s, i) = sep THEN <<cur>> \o SplitFrom(s, sep, i + 1, "")
    ELSE SplitFrom(s, sep, i + 1, cur \o CharAt(s, i))

Split(s, sep) == SplitFrom(s, sep, 1, "")

\* s.replace(old, new) for a non-empty old: every non-overlapping occurrence,
\* found from the left.
RECURSIVE ReplaceFrom(_, _, _, _)
ReplaceFrom(s, old, new, i) ==
    IF i > Len(s) THEN ""
    ELSE IF i + Len(old) - 1 <= Len(s) /\ SubSeq(s, i, i + Len(old) - 1) = old
         THEN new \o ReplaceFrom(s, old, new, i + Len(old))
    ELSE CharAt(s, i) \o ReplaceFrom(s, old, new, i + 1)

\* s.replace("", new) puts new before every character and at the end.
RECURSIVE Intersperse(_, _, _)
Intersperse(s, new, i) ==
    IF i > Len(s) THEN new
    ELSE new \o CharAt(s, i) \o Intersperse(s, new, i + 1)

Replace(s, old, new) ==
    IF old = "" THEN Intersperse(s, new, 1) ELSE ReplaceFrom(s, old, new, 1)

Whitespace == {" ", "\t", "\n", "\r"}

\* s.strip()
RECURSIVE LStrip(_)
LStrip(s) ==
    IF s # "" /\ CharAt(s, 1) \in Whitespace THEN LStrip(Tail(s)) ELSE s

RECURSIVE RStrip(_)
RStrip(s) ==
    IF s # "" /\ CharAt(s, Len(s)) \in Whitespace
    THEN RStrip(SubSeq(s, 1, Len(s) - 1))
    ELSE s

Strip(s) == RStrip(LStrip(s))

Digits == <<"0", "1", "2", "3", "4", "5", "6", "7", "8", "9">>

\* str(n) for n >= 0
RECURSIVE NatToStr(_)
NatToStr(n) ==
    IF n < 10 THEN Digits[n + 1] ELSE NatToStr(n \div 10) \o Digits[(n % 10) + 1]

\* str(n)
IntToStr(n) == IF n < 0 THEN "-" \o NatToStr(-n) ELSE NatToStr(n)

\* posixpath.join(a, b): an absolute b replaces a; otherwise one '/' between.
PathJoin2(a, b) ==
    IF StartsWith(b, "/") THEN b
    ELSE IF a = "" \/ EndsWith(a, "/") THEN a \o b
    ELSE a \o "/" \o b

\* os.path.join(*parts)
RECURSIVE PathJoinFrom(_, _)
PathJoinFrom(acc, parts) ==
    IF parts = <<>> THEN acc
    ELSE PathJoinFrom(PathJoin2(acc, Head(parts)), Tail(parts))

PathJoin(parts) == PathJoinFrom(Head(parts), Tail(parts))

---------------------------------------------------------------------------
(* make_bids_filename *)

\* The parameters of make_bids_filename, in the order of its signature.
ParamNames ==
    <<"subject", "session", "task", "acquisition", "run", "processing",
      "recording", "space", "suffix", "prefix">>

\* The value bound to parameter `name` by a call with keyword arguments kw (a
\* sequence of <<name, value>> in the order the call site wrote them); every
\* parameter defaults to None.
Arg(kw, name) ==
    IF \E i \in 1..Len(kw) : kw[i][1] = name
    THEN kw[CHOOSE i \in 1..Len(kw) : kw[i][1] = name][2]
    ELSE None

\* A faulty Format02 that does not pad: str(n).
Format02Unpadded(n) == IntToStr(n)

\* '{:02}'.format(n): the decimal digits with their sign, zero-filled to a
\* width of two.
Format02(n) == LET s == IntToStr(n) IN IF Len(s) < 2 THEN "0" \o s ELSE s

ErrTypes == "All values must be either None or strings"

ErrNoParam == "At least one parameter must be given"

ErrKeyVal == "Unallowed -, _, or / found in key/value pair"

\* _check_types raises unless every variable is a string or None.
_check_types(variables) ==
    IF \E i \in 1..Len(variables) : ~(IsStr(variables[i]) \/ IsNone(variables[i]))
    THEN Raised(ErrTypes)
    ELSE Returned(None)

\* A faulty _check_key_val that forgets the path separator.
_check_key_val_no_slash(key, val) ==
    IF \E ii \in {"-", "_"} : Contains(val.s, ii)
    THEN Raised(ErrKeyVal)
    ELSE Returned(<<key, val>>)

\* A faulty _check_key_val that forgets the token separator.
_check_key_val_no_underscore(key, val) ==
    IF \E ii \in {"-", "/"} : Contains(val.s, ii)
    THEN Raised(ErrKeyVal)
    ELSE Returned(<<key, val>>)

_check_key_val(key, val) ==
    IF \E ii \in {"-", "_", "/"} : Contains(val.s, ii)
    THEN Raised(ErrKeyVal)
    ELSE Returned(<<key, val>>)

\* A faulty EntityOrder that follows the signature, where recording comes
\* before space.
EntityOrderBySignature(kw) ==
    << <<PyStr("sub"), Arg(kw, "subject")>>,
       <<PyStr("ses"), Arg(kw, "session")>>,
       <<PyStr("task"), Arg(kw, "task")>>,
       <<PyStr("acq"), Arg(kw, "acquisition")>>,
       <<PyStr("run"), Arg(kw, "run")>>,
       <<PyStr("proc"), Arg(kw, "processing")>>,
       <<PyStr("recording"), Arg(kw, "recording")>>,
       <<PyStr("space"), Arg(kw, "space")>> >>

\* The OrderedDict built at the top of make_bids_filename, as its items.
EntityOrder(kw) ==
    << <<PyStr("sub"), Arg(kw, "subject")>>,
       <<PyStr("ses"), Arg(kw, "session")>>,
       <<PyStr("task"), Arg(kw, "task")>>,
       <<PyStr("acq"), Arg(kw, "acquisition")>>,
       <<PyStr("run"), Arg(kw, "run")>>,
       <<PyStr("proc"), Arg(kw, "processing")>>,
       <<PyStr("space"), Arg(kw, "space")>>,
       <<PyStr("recording"), Arg(kw, "recording")>> >>

\* order['run'] = '{:02}'.format(order['run']), when run is neither None nor
\* a string.
NormalizeRun(order) ==
    [i \in 1..Len(order) |->
        IF order[i][1] = PyStr("run") /\ ~IsNone(order[i][2]) /\ ~IsStr(order[i][2])
        THEN <<order[i][1], PyStr(Format02(order[i][2].n))>>
        ELSE order[i]]

\* The loop over order.items(): each value that is not None is validated and
\* then appended as 'key-value'; the first failure ends the call.
RECURSIVE FilenameLoop(_, _, _)
FilenameLoop(order, i, filename) ==
    IF i > Len(order) THEN Returned(filename)
    ELSE IF IsNone(order[i][2]) THEN FilenameLoop(order, i + 1, filename)
    ELSE IF ~_check_key_val(order[i][1], order[i][2]).ok
         THEN _check_key_val(order[i][1], order[i][2])
    ELSE FilenameLoop(order, i + 1,
                      Append(filename, order[i][1].s \o "-" \o order[i][2].s))

make_bids_filename(kw) ==
    LET order == NormalizeRun(EntityOrder(kw))
        suffix == Arg(kw, "suffix")
        prefix == Arg(kw, "prefix")
        loop == FilenameLoop(order, 1, <<>>)
        filename == Join(IF IsStr(suffix) THEN Append(loop.val, suffix.s)
                         ELSE loop.val, "_")
    IN  IF ~_check_types([i \in 1..Len(order) |-> order[i][2]]).ok
        THEN _check_types([i \in 1..Len(order) |-> order[i][2]])
        ELSE IF ~(\E i \in 1..Len(order) : IsStr(order[i][1]))
        THEN Raised(ErrNoParam)
        ELSE IF ~loop.ok THEN loop
        ELSE IF IsStr(prefix) THEN Returned(PathJoin(<<prefix.s, filename>>))
        ELSE Returned(filename)

\* The largest run number of the calls explored below RunHundred.
MaxRun == 10

\* A run number of three digits.
RunHundred == 100

\* The arguments explored: for every entity None and a valid label, and among
\* them labels with each separator, an empty label, an integer where a string
\* is expected, and run as a negative, one-, two- and three-digit integer and
\* as a string.
FilenameArgs ==
    [subject : {None, PyStr("test"), PyStr("a_b"), PyInt(1)},
     session : {None, PyStr("two"), PyStr("x-y")},
     task : {None, PyStr("mytask"), PyStr("")},
     acquisition : {None, PyStr("full"), PyStr("a/b")},
     run : {None, PyStr("7"), PyStr("07")}
           \cup {PyInt(n) : n \in (-1..MaxRun) \cup {RunHundred}},
     processing : {None, PyStr("sss")},
     recording : {None, PyStr("rec")},
     space : {None, PyStr("mni")},
     suffix : {None, PyStr("meg.fif")},
     prefix : {None, PyStr("proj")}]

ArgOf(a, name) ==
    CASE name = "subject" -> a.subject
      [] name = "session" -> a.session
      [] name = "task" -> a.task
      [] name = "acquisition" -> a.acquisition
      [] name = "run" -> a.run
      [] name = "processing" -> a.processing
      [] name = "recording" -> a.recording
      [] name = "space" -> a.space
      [] name = "suffix" -> a.suffix
      [] name = "prefix" -> a.prefix

\* The orders in which a call site writes its keyword arguments: that of the
\* signature, and its reverse.
CallOrders ==
    {[i \in 1..Len(ParamNames) |-> i],
     [i \in 1..Len(ParamNames) |-> Len(ParamNames) + 1 - i]}

Kwargs(a, perm) ==
    [i \in 1..Len(ParamNames) |-> <<ParamNames[perm[i]], ArgOf(a, ParamNames[perm[i]])>>]

\* The working directory alone.
EmptyFS == [p \in {""} |-> [type |-> "dir"]]

InitFilename ==
    /\ call \in {[fn |-> "make_bids_filename", kwargs |-> Kwargs(a, perm)] :
                    a \in FilenameArgs, perm \in CallOrders}
    /\ ret = NotCalled
    /\ fs = EmptyFS
    /\ fs0 = EmptyFS
    /\ ncalls = 0

CallFilename ==
    /\ call.fn = "make_bids_filename"
    /\ ret = NotCalled
    /\ ret' = make_bids_filename(call.kwargs)
    /\ ncalls' = ncalls + 1
    /\ UNCHANGED <<call, fs, fs0>>

NextFilename == CallFilename

SpecFilename == InitFilename /\ [][NextFilename]_vars

---------------------------------------------------------------------------
(* The filesystem *)

\* A path as the filesystem names it: its segments between '/', without the
\* empty ones and '.', joined by '/'.  "" is the working directory.
RECURSIVE DropEmpty(_)
DropEmpty(segs) ==
    IF segs = <<>> THEN <<>>
    ELSE IF Head(segs) \in {"", "."} THEN DropEmpty(Tail(segs))
    ELSE <<Head(segs)>> \o DropEmpty(Tail(segs))

Segments(path) == DropEmpty(Split(path, "/"))

NormPath(path) == Join(Segments(path), "/")

\* os.path.dirname of a normalized path.
Parent(path) ==
    LET segs == Segments(path) IN Join(SubSeq(segs, 1, Len(segs) - 1), "/")

\* The path itself and every directory above it, the working directory
\* excepted.
Lineage(path) ==
    LET segs == Segments(path)
    IN  {Join(SubSeq(segs, 1, k), "/") : k \in 1..Len(segs)}

\* os.path.exists, os.path.isdir, os.path.isfile
Exists(f, path) == NormPath(path) \in DOMAIN f

IsDir(f, path) == Exists(f, path) /\ f[NormPath(path)].type = "dir"

IsFile(f, path) == Exists(f, path) /\ f[NormPath(path)].type = "file"

\* q is path or lies below it.
Under(q, path) == q = path \/ StartsWith(q, path \o "/")

\* What a directory holds, at any depth.
Contents(f, path) == {q \in DOMAIN f : Under(q, NormPath(path)) /\ q # NormPath(path)}

\* shutil.rmtree(path) of a directory.
RmTree(f, path) ==
    [q \in {r \in DOMAIN f : ~Under(r, NormPath(path))} |-> f[q]]

\* os.makedirs(path): EEXIST when the path exists, ENOTDIR when a file is in
\* the way; otherwise the path and its missing parents become directories.
MakeDirs(f, path) ==
    IF Exists(f, path) THEN [ok |-> FALSE, errno |-> "EEXIST", fs |-> f]
    ELSE IF \E q \in Lineage(path) : IsFile(f, q)
    THEN [ok |-> FALSE, errno |-> "ENOTDIR", fs |-> f]
    ELSE [ok |-> TRUE, errno |-> "",
          fs |-> [q \in DOMAIN f \cup Lineage(path) |->
                     IF q \in DOMAIN f THEN f[q] ELSE [type |-> "dir"]]]

\* open(path, 'w') followed by the writes: the file holds the lines; fails
\* when the directory is missing or the path is a directory.
WriteFile(f, path, lines) ==
    IF ~IsDir(f, Parent(path)) \/ IsDir(f, path) \/ Segments(path) = <<>>
    THEN [ok |-> FALSE, fs |-> f]
    ELSE [ok |-> TRUE,
          fs |-> [q \in DOMAIN f \cup {NormPath(path)} |->
                     IF q = NormPath(path) THEN [type |-> "file", lines |-> lines]
                     ELSE f[q]]]

ErrOS == "OSError"

ErrIO == "IOError"

---------------------------------------------------------------------------
(* _mkdir_p and make_bids_folders *)

\* A faulty _mkdir_p that never clears the directory.
_mkdir_p_keep(f, path, overwrite) ==
    LET made == MakeDirs(f, path)
    IN  IF made.ok THEN [ret |-> Returned(None), fs |-> made.fs]
        ELSE IF made.errno = "EEXIST" /\ IsDir(f, path)
        THEN [ret |-> Returned(None), fs |-> f]
        ELSE [ret |-> Raised(ErrOS), fs |-> f]

\* _mkdir_p(path, overwrite): the result and the filesystem it leaves.
_mkdir_p(f, path, overwrite) ==
    LET cleared == IF overwrite /\ IsDir(f, path) THEN RmTree(f, path) ELSE f
        made == MakeDirs(cleared, path)
    IN  IF made.ok THEN [ret |-> Returned(None), fs |-> made.fs]
        ELSE IF made.errno = "EEXIST" /\ IsDir(cleared, path)
        THEN [ret |-> Returned(None), fs |-> cleared]
        ELSE [ret |-> Raised(ErrOS), fs |-> cleared]

\* '%s' % v
StrOf(v) == IF IsStr(v) THEN v.s ELSE IF IsNone(v) THEN "None" ELSE IntToStr(v.n)

\* A faulty make_bids_folders that creates the directory whatever make_dir says.
make_bids_folders_always(f, a) ==
    LET path0 == PathJoin(<<"sub-" \o StrOf(a.subject)>>
                          \o (IF IsStr(a.session) THEN <<"ses-" \o a.session.s>> ELSE <<>>)
                          \o (IF IsStr(a.kind) THEN <<a.kind.s>> ELSE <<>>))
        path == IF IsStr(a.root) THEN PathJoin(<<a.root.s, path0>>) ELSE path0
        made == _mkdir_p(f, path, a.overwrite)
    IN  IF ~_check_types(<<a.subject, a.kind, a.session, a.root>>).ok
        THEN [ret |-> _check_types(<<a.subject, a.kind, a.session, a.root>>), fs |-> f]
        ELSE IF ~IsNone(a.session) /\ ~_check_key_val(PyStr("ses"), a.session).ok
        THEN [ret |-> _check_key_val(PyStr("ses"), a.session), fs |-> f]
        ELSE IF ~made.ret.ok THEN made
        ELSE [ret |-> Returned(path), fs |-> made.fs]

\* make_bids_folders: the result and the filesystem it leaves.
make_bids_folders(f, a) ==
    LET path0 == PathJoin(<<"sub-" \o StrOf(a.subject)>>
                          \o (IF IsStr(a.session) THEN <<"ses-" \o a.session.s>> ELSE <<>>)
                          \o (IF IsStr(a.kind) THEN <<a.kind.s>> ELSE <<>>))
        path == IF IsStr(a.root) THEN PathJoin(<<a.root.s, path0>>) ELSE path0
        made == _mkdir_p(f, path, a.overwrite)
    IN  IF ~_check_types(<<a.subject, a.kind, a.session, a.root>>).ok
        THEN [ret |-> _check_types(<<a.subject, a.kind, a.session, a.root>>), fs |-> f]
        ELSE IF ~IsNone(a.session) /\ ~_check_key_val(PyStr("ses"), a.session).ok
        THEN [ret |-> _check_key_val(PyStr("ses"), a.session), fs |-> f]
        ELSE IF ~a.make_dir THEN [ret |-> Returned(path), fs |-> f]
        ELSE IF ~made.ret.ok THEN made
        ELSE [ret |-> Returned(path), fs |-> made.fs]

\* The version string of mne_bids.config.
BIDS_VERSION == "1.1.1 (draft)"

\* json.dumps(description, indent=4) of the fields that are not None, and the
\* newline written after it, as the lines of the file.
JsonLines(items) ==
    <<"{\n">>
    \o [i \in 1..Len(items) |->
           "    \"" \o items[i][1] \o "\": \"" \o items[i][2] \o "\""
           \o (IF i < Len(items) THEN ",\n" ELSE "\n")]
    \o <<"}\n">>

\* make_dataset_description(path, name=name), the other fields left None.
make_dataset_description(f, a) ==
    LET fname == PathJoin(<<a.path, "dataset_description.json">>)
        description == (IF IsNone(a.name) THEN <<>> ELSE <<<<"Name", a.name.s>>>>)
                       \o <<<<"BIDSVersion", BIDS_VERSION>>>>
        written == WriteFile(f, fname, JsonLines(description))
    IN  IF written.ok THEN [ret |-> Returned(None), fs |-> written.fs]
        ELSE [ret |-> Raised(ErrIO), fs |-> f]

\* The arguments explored: a subject with a separator (it is not validated)
\* and one of the wrong type, a session without and with a
\* separator, with and without kind and root, every make_dir and overwrite.
FolderArgs ==
    [subject : {PyStr("sub_01"), PyInt(1)},
     session : {None, PyStr("s1"), PyStr("my_session")},
     kind : {None, PyStr("meg")},
     root : {None, PyStr("proj")},
     make_dir : BOOLEAN,
     overwrite : BOOLEAN]

\* The calls of one behaviour.
MaxCalls == 3

InitFolders ==
    /\ call = [fn |-> "none"]
    /\ ret = NotCalled
    /\ fs = EmptyFS
    /\ fs0 = EmptyFS
    /\ ncalls = 0

CallFolders ==
    \E a \in FolderArgs :
        /\ ncalls < MaxCalls
        /\ ncalls' = ncalls + 1
        /\ call' = [fn |-> "make_bids_folders", args |-> a]
        /\ ret' = make_bids_folders(fs, a).ret
        /\ fs' = make_bids_folders(fs, a).fs
        /\ fs0' = fs

\* The caller writes the description into the folder the last call returned.
CallDescription ==
    /\ call.fn = "make_bids_folders"
    /\ ret.ok
    /\ ncalls < MaxCalls
    /\ ncalls' = ncalls + 1
    /\ \E name \in {None, PyStr("ds")} :
        LET a == [path |-> ret.val, name |-> name]
        IN  /\ call' = [fn |-> "make_dataset_description", args |-> a]
            /\ ret' = make_dataset_description(fs, a).ret
            /\ fs' = make_dataset_description(fs, a).fs
            /\ fs0' = fs

NextFolders == CallFolders \/ CallDescription

SpecFolders == InitFolders /\ [][NextFolders]_vars

---------------------------------------------------------------------------
(* BrainVision files: make_test_brainvision_data and copyfile_brainvision *)

\* os.path.splitext: the extension starts at the last '.' of the last
\* segment, unless only dots come before it there.
SplitExt(p) ==
    LET dots == {i \in 1..Len(p) : CharAt(p, i) = "."}
        seps == {i \in 1..Len(p) : CharAt(p, i) = "/"}
        sepIndex == IF seps = {} THEN 0 ELSE CHOOSE i \in seps : \A j \in seps : j <= i
        dotIndex == IF dots = {} THEN 0 ELSE CHOOSE i \in dots : \A j \in dots : j <= i
    IN  IF dotIndex > sepIndex
           /\ \E k \in (sepIndex + 1)..(dotIndex - 1) : CharAt(p, k) # "."
        THEN <<SubSeq(p, 1, dotIndex - 1), SubSeq(p, dotIndex, Len(p))>>
        ELSE <<p, "">>

\* mne_bids.io._parse_ext: the name and the extension, '.pdf' when there is
\* none.
_parse_ext(raw_fname) ==
    LET parts == SplitExt(raw_fname)
    IN  IF parts[2] = "" THEN <<parts[1], ".pdf">> ELSE parts

\* The lines make_test_brainvision_data writes to the header file, at its
\* default sampling frequency of 1000 Hz.
TestHeaderLines(basename, n_channels) ==
    <<"Brain Vision Data Exchange Header File Version 1.0\n",
      "\n", "[Common Infos]\n",
      "DataFile=" \o basename \o ".eeg\n",
      "MarkerFile=" \o basename \o ".vmrk\n",
      "DataFormat=BINARY\n",
      "Data orientation: MULTIPLEXED=ch1,pt1, ch2,pt1 ...\n",
      "DataOrientation=MULTIPLEXED\n",
      "NumberOfChannels=" \o IntToStr(n_channels) \o "\n",
      "SamplingInterval=" \o IntToStr(1000) \o "\n",
      "\n", "[Binary Infos]\n",
      "BinaryFormat=IEEE_FLOAT_32\n",
      "\n", "[Channel Infos]\n">>
    \o [c \in 1..n_channels |->
           "Ch" \o IntToStr(c) \o "=chan" \o IntToStr(c) \o ",,0.1\n"]

\* The lines it writes to the marker file: one event per second.
TestMarkerLines(basename, rec_dur) ==
    <<"Brain Vision Data Exchange Marker File, Version 1.0\n",
      "\n", "[Common Infos]\n",
      "DataFile=" \o basename \o ".eeg\n",
      "\n", "[Marker Infos]\n">>
    \o [e \in 1..rec_dur |->
           "Mk" \o IntToStr(e) \o "=Stimulus,S1,"
           \o IntToStr((e - 1) * 1000 + 500) \o ",1,0\n"]

\* make_test_brainvision_data(output_dir, basename, n_channels, rec_dur=rec_dur);
\* data is what the random generator gave.
make_test_brainvision_data(f, a, data) ==
    LET vhdr == PathJoin(<<a.output_dir, a.basename \o ".vhdr">>)
        eeg == PathJoin(<<a.output_dir, a.basename \o ".eeg">>)
        vmrk == PathJoin(<<a.output_dir, a.basename \o ".vmrk">>)
        w1 == WriteFile(f, vhdr, TestHeaderLines(a.basename, a.n_channels))
        w2 == WriteFile(w1.fs, eeg, <<data>>)
        w3 == WriteFile(w2.fs, vmrk, TestMarkerLines(a.basename, a.rec_dur))
    IN  IF ~w1.ok THEN [ret |-> Raised(ErrIO), fs |-> f]
        ELSE IF ~w2.ok THEN [ret |-> Raised(ErrIO), fs |-> w1.fs]
        ELSE IF ~w3.ok THEN [ret |-> Raised(ErrIO), fs |-> w2.fs]
        ELSE [ret |-> Returned(vhdr), fs |-> w3.fs]

ErrNotExist == "File does not exist"

ErrSameExt == "Need to move data with same extension"

ErrBvExt == "Expecting file ending in one of"

\* fname.split(os.sep)[-1]
LastSegment(fname) == LET parts == Split(fname, "/") IN parts[Len(parts)]

\* A faulty RewriteLines that rewrites every line that holds a search line.
RewriteLinesContaining(lines, basename_src, basename_dest) ==
    LET search_lines == {"DataFile=" \o basename_src \o ".eeg",
                         "MarkerFile=" \o basename_src \o ".vmrk"}
    IN  [i \in 1..Len(lines) |->
            IF \E sl \in search_lines : Contains(lines[i], sl)
            THEN Replace(lines[i], basename_src, basename_dest)
            ELSE lines[i]]

\* The lines written for the lines read: a line whose stripped text is one of
\* the search lines has every basename_src replaced by basename_dest.
RewriteLines(lines, basename_src, basename_dest) ==
    LET search_lines == {"DataFile=" \o basename_src \o ".eeg",
                         "MarkerFile=" \o basename_src \o ".vmrk"}
    IN  [i \in 1..Len(lines) |->
            IF Strip(lines[i]) \in search_lines
            THEN Replace(lines[i], basename_src, basename_dest)
            ELSE lines[i]]

\* A faulty copyfile_brainvision that does not compare the two extensions.
copyfile_brainvision_any_dest(f, src, dest) ==
    LET fname_src == _parse_ext(src)[1]
        ext_src == _parse_ext(src)[2]
        fname_dest == _parse_ext(dest)[1]
        lines == f[NormPath(src)].lines
        copied == WriteFile(f, dest, lines)
        written == WriteFile(f, dest, RewriteLines(lines, LastSegment(fname_src),
                                                   LastSegment(fname_dest)))
    IN  IF ~Exists(f, src) THEN [ret |-> Raised(ErrNotExist), fs |-> f]
        ELSE IF ext_src \notin {".eeg", ".vhdr", ".vmrk"}
        THEN [ret |-> Raised(ErrBvExt), fs |-> f]
        ELSE IF ext_src = ".eeg"
        THEN IF ~IsFile(f, src) \/ NormPath(src) = NormPath(dest) \/ ~copied.ok
             THEN [ret |-> Raised(ErrOS), fs |-> f]
             ELSE [ret |-> Returned(None), fs |-> copied.fs]
        ELSE IF ~IsFile(f, src) \/ ~written.ok THEN [ret |-> Raised(ErrIO), fs |-> f]
        ELSE [ret |-> Returned(None), fs |-> written.fs]

\* copyfile_brainvision(src, dest): the result and the filesystem it leaves.
copyfile_brainvision(f, src, dest) ==
    LET fname_src == _parse_ext(src)[1]
        ext_src == _parse_ext(src)[2]
        fname_dest == _parse_ext(dest)[1]
        ext_dest == _parse_ext(dest)[2]
        lines == f[NormPath(src)].lines
        copied == WriteFile(f, dest, lines)
        written == WriteFile(f, dest, RewriteLines(lines, LastSegment(fname_src),
                                                   LastSegment(fname_dest)))
    IN  IF ~Exists(f, src) THEN [ret |-> Raised(ErrNotExist), fs |-> f]
        ELSE IF ext_src # ext_dest THEN [ret |-> Raised(ErrSameExt), fs |-> f]
        ELSE IF ext_src \notin {".eeg", ".vhdr", ".vmrk"}
        THEN [ret |-> Raised(ErrBvExt), fs |-> f]
        ELSE IF ext_src = ".eeg"
        THEN IF ~IsFile(f, src) \/ NormPath(src) = NormPath(dest) \/ ~copied.ok
             THEN [ret |-> Raised(ErrOS), fs |-> f]
             ELSE [ret |-> Returned(None), fs |-> copied.fs]
        ELSE IF ~IsFile(f, src) \/ ~written.ok THEN [ret |-> Raised(ErrIO), fs |-> f]
        ELSE [ret |-> Returned(None), fs |-> written.fs]

\* The longest hand-written text file explored, in lines.
MaxLines == 3

\* The lines of the hand-written files of a recording named b: the two
\* pointers, a pointer with blanks around it, a line that only mentions one,
\* and a line without any.
LinePool(b) ==
    {"DataFile=" \o b \o ".eeg\n",
     "MarkerFile=" \o b \o ".vmrk\n",
     "  DataFile=" \o b \o ".eeg \n",
     "; was DataFile=" \o b \o ".eeg\n",
     "DataFormat=BINARY\n"}

TextsOf(b) == UNION {[1..n -> LinePool(b)] : n \in 1..MaxLines}

\* The files a behaviour starts with: a directory out, an older bar.eeg, and
\* either nothing else or one file of a recording named foo or a.
WithFile(f, path, lines) == WriteFile(f, path, lines).fs

BaseFS ==
    WithFile([p \in {"", "out"} |-> [type |-> "dir"]], "bar.eeg", <<"old data">>)

SourceFiles ==
    UNION {{<<b \o ext, text>> : ext \in {".vhdr", ".vmrk"}, text \in TextsOf(b)} :
              b \in {"foo", "a"}}
    \cup {<<b \o ext, <<"data">>>> : b \in {"foo", "a"}, ext \in {".eeg", ".txt", ""}}

InitCopy ==
    /\ call = [fn |-> "none"]
    /\ ret = NotCalled
    /\ fs \in {BaseFS} \cup {WithFile(BaseFS, sf[1], sf[2]) : sf \in SourceFiles}
    /\ fs0 = fs
    /\ ncalls = 0

\* Test data is made where no recording is yet.
CallMakeTestData ==
    /\ ncalls = 0
    /\ fs = BaseFS
    /\ \E n_channels \in 1..2, rec_dur \in 1..2, data \in {"data", "other data"} :
        LET a == [output_dir |-> ".", basename |-> "test",
                  n_channels |-> n_channels, rec_dur |-> rec_dur]
        IN  /\ call' = [fn |-> "make_test_brainvision_data", args |-> a]
            /\ ret' = make_test_brainvision_data(fs, a, data).ret
            /\ fs' = make_test_brainvision_data(fs, a, data).fs
    /\ fs0' = fs
    /\ ncalls' = ncalls + 1

DestPaths ==
    {"bar.vhdr", "bar.vmrk", "bar.eeg", "bar.txt", "bar", "out/foo.vhdr",
     "gone/bar.vhdr"}

\* One copy in a behaviour: of a file that exists, of the directory, or of a
\* file that does not exist.
CallCopy ==
    /\ call.fn # "copyfile_brainvision"
    /\ \E src \in (DOMAIN fs \ {""}) \cup {"missing.vhdr"}, dest \in DestPaths :
        /\ call' = [fn |-> "copyfile_brainvision", src |-> src, dest |-> dest]
        /\ ret' = copyfile_brainvision(fs, src, dest).ret
        /\ fs' = copyfile_brainvision(fs, src, dest).fs
    /\ fs0' = fs
    /\ ncalls' = ncalls + 1

NextCopy == CallMakeTestData \/ CallCopy

SpecCopy == InitCopy /\ [][NextCopy]_vars

---------------------------------------------------------------------------
(* Properties of make_bids_filename *)

FilenameCalled == call.fn = "make_bids_filename" /\ ret # NotCalled

\* The entities as the specification lists them: the key of each and the
\* parameter that carries its value.
CanonicalEntities ==
    << <<"sub", "subject">>, <<"ses", "session">>, <<"task", "task">>,
       <<"acq", "acquisition">>, <<"run", "run">>, <<"proc", "processing">>,
       <<"space", "space">>, <<"recording", "recording">> >>

Separators == {"-", "_", "/"}

HasSeparator(s) == \E c \in Separators : Contains(s, c)

\* n as a decimal of at least two digits, for n >= 0.
TwoDigits(n) == IF n < 10 THEN "0" \o NatToStr(n) ELSE NatToStr(n)

\* The label an entity value stands for: a string as it is, an integer run
\* as its two-digit decimal.
Label(v) == IF IsStr(v) THEN v.s ELSE Format02(v.n)

\* The values of the call's entities, and those that were provided.
EntityValue(i) == Arg(call.kwargs, CanonicalEntities[i][2])

Provided == {i \in 1..Len(CanonicalEntities) : ~IsNone(EntityValue(i))}

\* Every entity value is of a type the builder takes: a string or None, and
\* for run also an integer.
WellTyped ==
    \A i \in Provided :
        IsStr(EntityValue(i))
        \/ (CanonicalEntities[i][1] = "run" /\ EntityValue(i).t = "int")

SomeSeparator ==
    \E i \in Provided :
        (IsStr(EntityValue(i)) \/ CanonicalEntities[i][1] = "run")
        /\ HasSeparator(Label(EntityValue(i)))

\* The tokens 'key-label' of the provided entities, in the canonical order.
RECURSIVE CanonicalTokens(_)
CanonicalTokens(i) ==
    IF i > Len(CanonicalEntities) THEN <<>>
    ELSE IF i \in Provided
         THEN <<CanonicalEntities[i][1] \o "-" \o Label(EntityValue(i))>>
              \o CanonicalTokens(i + 1)
    ELSE CanonicalTokens(i + 1)

\* The file name of a returned path: what follows its last '/'.
BaseName(path) == LET parts == Split(path, "/") IN parts[Len(parts)]

\* The tokens of a returned name.
Tokens(path) == Split(BaseName(path), "_")

\* C1: whichever entities are given, and in whichever order the call site
\* writes them, the returned name is the 'key-value' tokens of the given
\* entities in the order sub, ses, task, acq, run, proc, space, recording,
\* then the suffix if it is a string, joined by '_' (and joined onto the
\* prefix, if one is given).
C1_FixedOrder ==
    (FilenameCalled /\ ret.ok) =>
        LET suffix == Arg(call.kwargs, "suffix")
            prefix == Arg(call.kwargs, "prefix")
            name == Join(CanonicalTokens(1)
                         \o (IF IsStr(suffix) THEN <<suffix.s>> ELSE <<>>), "_")
        IN  ret.val = IF IsStr(prefix) THEN prefix.s \o "/" \o name ELSE name

\* A call that writes its keyword arguments in the reverse of the signature's
\* order, with space and recording among them, and returns a name.
C1_Witness ==
    /\ FilenameCalled
    /\ call.kwargs[1][1] = "prefix"
    /\ ret = Returned("sub-test_ses-two_run-07_space-mni_recording-rec_meg.fif")

\* C2: a call one of whose provided labels (run after normalization
\* included) contains '-', '_' or '/' returns no name at all, and, its values
\* being of the types the builder takes, raises the validator's error; a call
\* none of whose labels contains one does not raise the validator's error.
C2_SeparatorRejected ==
    FilenameCalled =>
        /\ SomeSeparator => (~ret.ok /\ (WellTyped => ret = Raised(ErrKeyVal)))
        /\ ~SomeSeparator => ret # Raised(ErrKeyVal)

\* A valid subject comes before the offending session: no partial name
\* 'sub-test' is returned.
C2_Witness ==
    /\ FilenameCalled
    /\ Arg(call.kwargs, "subject") = PyStr("test")
    /\ Arg(call.kwargs, "session") = PyStr("x-y")
    /\ Arg(call.kwargs, "acquisition") = PyStr("a/b")
    /\ ret = Raised(ErrKeyVal)

\* C3: a call with none of the eight entities fails with 'At least one
\* parameter must be given'.
C3_NoEntityFails ==
    (FilenameCalled /\ Provided = {}) => ret = Raised(ErrNoParam)

\* C4: with the other labels valid, an integer run n >= 0 gives the token
\* 'run-' followed by n in at least two digits, and a string run gives the
\* token 'run-' followed by that string as it is; an integer run does not by
\* itself raise the type error.
C4_RunRendering ==
    LET run == Arg(call.kwargs, "run")
    IN  FilenameCalled =>
        /\ (run.t = "int" /\ run.n >= 0 /\ WellTyped /\ ~SomeSeparator) =>
              /\ ret.ok
              /\ \E k \in 1..Len(Tokens(ret.val)) :
                    Tokens(ret.val)[k] = "run-" \o TwoDigits(run.n)
        /\ (IsStr(run) /\ WellTyped /\ ~SomeSeparator) =>
              /\ ret.ok
              /\ \E k \in 1..Len(Tokens(ret.val)) :
                    Tokens(ret.val)[k] = "run-" \o run.s
        /\ (run.t = "int" /\ WellTyped) => ret # Raised(ErrTypes)

C4_Witness ==
    /\ FilenameCalled
    /\ Arg(call.kwargs, "run") = PyInt(7)
    /\ ret = Returned("sub-test_run-07")

\* The text before the first '-' of a token and the text after it; a token
\* without '-' alone.
KeyValue(token) ==
    IF Contains(token, "-")
    THEN LET i == CHOOSE j \in 1..Len(token) :
                     /\ CharAt(token, j) = "-"
                     /\ \A k \in 1..(j - 1) : CharAt(token, k) # "-"
         IN  <<SubSeq(token, 1, i - 1), SubSeq(token, i + 1, Len(token))>>
    ELSE <<token>>

\* The entities a name reads as: its tokens between '_', each split at its
\* first '-'.
ParseName(name) ==
    IF name = "" THEN {}
    ELSE {KeyValue(Split(name, "_")[k]) : k \in 1..Len(Split(name, "_"))}

\* C10: a name returned by a call without suffix and prefix reads back as
\* exactly the entities the call was given, with their (run-normalized)
\* labels: the name determines the entities, so two calls given different
\* entities never return the same name.
C10_NameDeterminesEntities ==
    (FilenameCalled /\ ret.ok /\ IsNone(Arg(call.kwargs, "suffix"))
                    /\ IsNone(Arg(call.kwargs, "prefix"))) =>
        ParseName(ret.val)
            = {<<CanonicalEntities[i][1], Label(EntityValue(i))>> : i \in Provided}

C10_Witness ==
    /\ FilenameCalled
    /\ IsNone(Arg(call.kwargs, "suffix"))
    /\ IsNone(Arg(call.kwargs, "prefix"))
    /\ Arg(call.kwargs, "run") = PyInt(7)
    /\ ret = Returned("sub-test_ses-two_run-07")

---------------------------------------------------------------------------
(* Properties of make_bids_folders and _mkdir_p *)

FoldersCalled == call.fn = "make_bids_folders"

\* The call passes the type check and the validation of its session.
FolderTypesOK ==
    \A v \in {call.args.subject, call.args.kind, call.args.session, call.args.root} :
        IsStr(v) \/ IsNone(v)

FolderArgsValid ==
    /\ FolderTypesOK
    /\ IsStr(call.args.session) => ~HasSeparator(call.args.session.s)

\* root/sub-<subject>/ses-<session>/<kind>, with the segments whose value is
\* not None.
FolderPath ==
    Join((IF IsNone(call.args.root) THEN <<>> ELSE <<call.args.root.s>>)
         \o <<"sub-" \o call.args.subject.s>>
         \o (IF IsNone(call.args.session) THEN <<>> ELSE <<"ses-" \o call.args.session.s>>)
         \o (IF IsNone(call.args.kind) THEN <<>> ELSE <<call.args.kind.s>>), "/")

C8_MkdirP ==
    (FoldersCalled /\ FolderArgsValid /\ call.args.make_dir) =>
        /\ (~call.args.overwrite /\ IsDir(fs0, FolderPath)) => (ret.ok /\ fs = fs0)
        /\ ret.ok => \A q \in Lineage(FolderPath) : IsDir(fs, q)
        /\ (ret.ok /\ call.args.overwrite /\ IsDir(fs0, FolderPath)) =>
              Contents(fs, FolderPath) = {}
        /\ (ret.ok /\ ~call.args.overwrite) =>
              make_bids_folders(fs, call.args) = [ret |-> ret, fs |-> fs]

\* An overwriting call on a folder that holds a file.
C8_Witness ==
    /\ FoldersCalled
    /\ FolderArgsValid
    /\ call.args.make_dir
    /\ call.args.overwrite
    /\ ret.ok
    /\ IsFile(fs0, FolderPath \o "/dataset_description.json")
    /\ IsDir(fs, FolderPath)

---------------------------------------------------------------------------
(* Properties of copyfile_brainvision *)

CopyCalled == call.fn = "copyfile_brainvision"

\* The basenames and the extension of the copy, and the lines of its source
\* and of its destination.
SrcBase == LastSegment(_parse_ext(call.src)[1])

DestBase == LastSegment(_parse_ext(call.dest)[1])

SrcExt == _parse_ext(call.src)[2]

DestExt == _parse_ext(call.dest)[2]

SrcLines == fs0[NormPath(call.src)].lines

DestLines == fs[NormPath(call.dest)].lines

\* A text member was copied.
TextCopied == CopyCalled /\ ret.ok /\ SrcExt \in {".vhdr", ".vmrk"}

DataRef(b) == "DataFile=" \o b \o ".eeg"

MarkerRef(b) == "MarkerFile=" \o b \o ".vmrk"

\* C5: a copy of S.vhdr, which holds the lines 'DataFile=S.eeg' and
\* 'MarkerFile=S.vmrk', to D.vhdr gives as many lines in the same order, where
\* those two read 'DataFile=D.eeg' and 'MarkerFile=D.vmrk' and every other
\* line is as in the source.
C5_PointersRenamed ==
    (TextCopied /\ SrcExt = ".vhdr"
     /\ (\E i \in 1..Len(SrcLines) : Strip(SrcLines[i]) = DataRef(SrcBase))
     /\ (\E i \in 1..Len(SrcLines) : Strip(SrcLines[i]) = MarkerRef(SrcBase))) =>
        /\ Len(DestLines) = Len(SrcLines)
        /\ \A i \in 1..Len(SrcLines) :
              IF Strip(SrcLines[i]) = DataRef(SrcBase)
              THEN Strip(DestLines[i]) = DataRef(DestBase)
              ELSE IF Strip(SrcLines[i]) = MarkerRef(SrcBase)
              THEN Strip(DestLines[i]) = MarkerRef(DestBase)
              ELSE DestLines[i] = SrcLines[i]

\* C6: a copy whose source is missing raises the IO error; one whose
\* extensions differ, and one whose shared extension is none of .eeg, .vhdr
\* and .vmrk, raise their value errors; and each leaves the filesystem as it
\* was: no destination is created and an existing one keeps its content.
C6_PreconditionsFirst ==
    CopyCalled =>
        /\ ~Exists(fs0, call.src) => (ret = Raised(ErrNotExist) /\ fs = fs0)
        /\ (Exists(fs0, call.src) /\ SrcExt # DestExt) =>
              (ret = Raised(ErrSameExt) /\ fs = fs0)
        /\ (Exists(fs0, call.src) /\ SrcExt = DestExt
            /\ SrcExt \notin {".eeg", ".vhdr", ".vmrk"}) =>
              (ret = Raised(ErrBvExt) /\ fs = fs0)

\* A header copied onto an existing data file: refused, and the data file
\* keeps its content.
C6_Witness ==
    /\ CopyCalled
    /\ call.src = "foo.vhdr"
    /\ call.dest = "bar.eeg"
    /\ ret = Raised(ErrSameExt)
    /\ IsFile(fs, "bar.eeg")
    /\ fs["bar.eeg"].lines = <<"old data">>

\* C9 as stated: in a copied text member every line is as in the source,
\* unless its stripped text is 'DataFile=S.eeg' or, in a .vhdr member only,
\* 'MarkerFile=S.vmrk'.
C9_MarkerOnlyInHeader ==
    TextCopied =>
        /\ Len(DestLines) = Len(SrcLines)
        /\ \A i \in 1..Len(SrcLines) :
              ~(Strip(SrcLines[i]) = DataRef(SrcBase)
                \/ (SrcExt = ".vhdr" /\ Strip(SrcLines[i]) = MarkerRef(SrcBase)))
              => DestLines[i] = SrcLines[i]

\* C9, amended: in a copied text member, .vhdr or .vmrk alike, every line is
\* as in the source unless its stripped text is 'DataFile=S.eeg' or
\* 'MarkerFile=S.vmrk'; and such a line is rewritten (it differs from the
\* source's when the basename changes).
C9_OnlyReferenceLines ==
    TextCopied =>
        /\ Len(DestLines) = Len(SrcLines)
        /\ \A i \in 1..Len(SrcLines) :
              IF Strip(SrcLines[i]) \in {DataRef(SrcBase), MarkerRef(SrcBase)}
              THEN SrcBase # DestBase => DestLines[i] # SrcLines[i]
              ELSE DestLines[i] = SrcLines[i]

\* A marker file that points to itself and mentions its data file in a
\* comment: the pointer is renamed, the comment is not.
C9_Witness ==
    /\ TextCopied
    /\ call.src = "foo.vmrk"
    /\ call.dest = "bar.vmrk"
    /\ SrcLines = <<"MarkerFile=foo.vmrk\n", "; was DataFile=foo.eeg\n">>
    /\ DestLines = <<"MarkerFile=bar.vmrk\n", "; was DataFile=foo.eeg\n">>

====
